---- MODULE Spec2Model ----
(***************************************************************************)
(* Reservations backend (main.py, email_utils.py).                         *)
(*                                                                         *)
(* The handlers are stateless; the state of the system is the remote store *)
(* (reservations, subscribers), the static configuration, and the requests *)
(* that are being served.  A handler runs without interruption up to its   *)
(* single awaited store call, the store then serves the call, and the      *)
(* handler maps the answer to the response.  A queued notification runs    *)
(* after the response, one send at a time.                                 *)
(*                                                                         *)
(* Strings that the code inspects (name, phone, guests) are sequences of   *)
(* one-character strings; "^2" stands for the character U+00B2.            *)
(***************************************************************************)
EXTENDS Integers, Sequences, FiniteSets, TLC

\* ------------------------------------------------------------------ bounds
MaxReservations == 2
\* reservation and admin requests served at the same time
MaxInFlight == 1
\* subscribe calls served at the same time
MaxSubscribeCalls == 2

\* --------------------------------------------------------------- str model
Whitespace == {" "}
\* characters for which int() yields a value
DecimalChars == {"0", "1", "2"}
\* characters str.isdigit() accepts: decimals and digit-like ones (U+00B2)
DigitChars == DecimalChars \cup {"^2"}

RECURSIVE lstrip(_)
lstrip(s) == IF s # <<>> /\ Head(s) \in Whitespace THEN lstrip(Tail(s)) ELSE s

RECURSIVE rstrip(_)
rstrip(s) ==
    IF s # <<>> /\ s[Len(s)] \in Whitespace
    THEN rstrip(SubSeq(s, 1, Len(s) - 1))
    ELSE s

strip(s) == rstrip(lstrip(s))

isdigit(s) == s # <<>> /\ \A i \in 1..Len(s) : s[i] \in DigitChars

\* int() raises ValueError unless every character is a decimal
IntRaises(s) == s = <<>> \/ \E i \in 1..Len(s) : s[i] \notin DecimalChars

DigitValue(c) == CASE c = "0" -> 0 [] c = "1" -> 1 [] c = "2" -> 2 [] OTHER -> 0

RECURSIVE int(_)
int(s) ==
    IF s = <<>> THEN 0
    ELSE 10 * int(SubSeq(s, 1, Len(s) - 1)) + DigitValue(s[Len(s)])

\* ------------------------------------------------------------------ models
StatusEnum == {"pending", "confirmed", "cancelled"}

ReservationFields ==
    {"name", "email", "phone", "guests", "date", "time", "occasion",
     "special_requests"}

\* the request body parsed into ReservationIn: fields the model does not
\* declare (a client-supplied status) are dropped
ReservationIn(raw) == [f \in ReservationFields |-> raw[f]]

\* ------------------------------------------------------------------ inputs
Names == { <<>>, <<" ", "a", " ">>, <<"a", "b">> }
Phones ==
    { <<" ", "1", "2", "0", "1", "2", "0", "1", " ">>,
      <<"1", "2", "0", "1", "2", "0", "1", "2">> }
Guests ==
    { <<>>, <<"a">>, <<"0">>, <<"2", "0">>, <<"2", "1">>, <<"^2">> }
Emails == {"a@x"}
SubscriberEmails == {"a@x", "b@x"}
ClientStatuses == {"none", "confirmed"}

RawReservations ==
    [name : Names, email : Emails, phone : Phones, guests : Guests,
     date : {"2024-06-01"}, time : {"19:30"}, occasion : {"none"},
     special_requests : {"none"}, status : ClientStatuses]

\* --------------------------------------------------------------- responses
Resp(code, msg) == [status |-> code, detail |-> msg]
Pass == Resp(0, "")

\* an exception no handler catches: the framework answers 500
Unhandled == Resp(500, "Internal Server Error")

\* create_reservation: the additional validation
Validate(res) ==
    IF strip(res.name) = <<>> \/ Len(strip(res.name)) < 2
    THEN Resp(400, "Name must be at least 2 characters")
    ELSE IF strip(res.phone) = <<>> \/ Len(strip(res.phone)) < 8
    THEN Resp(400, "Phone number must be at least 8 digits")
    ELSE IF res.guests = <<>> \/ ~isdigit(res.guests)
    THEN Resp(400, "Guests must be between 1 and 20")
    ELSE IF IntRaises(res.guests)
    THEN Unhandled
    ELSE IF int(res.guests) < 1 \/ int(res.guests) > 20
    THEN Resp(400, "Guests must be between 1 and 20")
    ELSE Pass

\* CreatePayload with the forced status left out when the client sent one
CreatePayload_client_status(raw) ==
    IF raw.status = "none"
    THEN [status |-> "pending"] @@ ReservationIn(raw)
    ELSE [status |-> raw.status] @@ ReservationIn(raw)

\* create_reservation: the record submitted to the store
CreatePayload(raw) == [status |-> "pending"] @@ ReservationIn(raw)

\* --------------------------------------------------------- security helper
Tokens == {"", "good", "bad"}

\* the Authorization header tried before the cookie
TokenOf_header_first(cookie, header) ==
    IF header # "" THEN header ELSE cookie
\* the cookie is tried first, then the Authorization header
TokenOf(cookie, header) == IF cookie # "" THEN cookie ELSE header

\* what the identity provider can answer for a token: the user, a result
\* without user, or an error (it is not asked when there is no token)
ProviderOutcomes(token) ==
    IF token = ""
    THEN {"none"}
    ELSE IF token = "good" THEN {"user", "raise"} ELSE {"nouser", "raise"}

\* require_auth passing the provider's error on to the caller
require_auth_leaks_error(cookie, header, provider) ==
    IF TokenOf(cookie, header) = ""
    THEN Resp(401, "Missing authentication")
    ELSE IF provider = "user"
    THEN Pass
    ELSE IF provider = "raise"
    THEN Resp(401, "provider error text")
    ELSE Resp(401, "Invalid or expired token")

\* require_auth without the check that the provider returned a user
require_auth_no_user_check(cookie, header, provider) ==
    IF TokenOf(cookie, header) = ""
    THEN Resp(401, "Missing authentication")
    ELSE IF provider \in {"user", "nouser"}
    THEN Pass
    ELSE Resp(401, "Invalid or expired token")

require_auth(cookie, header, provider) ==
    IF TokenOf(cookie, header) = ""
    THEN Resp(401, "Missing authentication")
    ELSE IF provider = "user"
    THEN Pass
    ELSE Resp(401, "Invalid or expired token")

\* ------------------------------------------------------- store call faults
Timeouts == {"ReadTimeout", "ConnectTimeout", "WriteTimeout"}
StoreErrorStatuses == {500, 503}

\* try/except around the store call of create_reservation
create_except(exc, code) ==
    IF exc \in {"ReadTimeout", "ConnectTimeout"}
    THEN Resp(504, "Timed out contacting database. Please try again.")
    ELSE IF exc = "HTTPStatusError"
    THEN Resp(code, "store error text")
    ELSE Unhandled

\* try/except around the store call of the three list operations
list_except(exc, code) ==
    IF exc \in {"ReadTimeout", "ConnectTimeout"}
    THEN Resp(504, "Timed out contacting database.")
    ELSE IF exc = "HTTPStatusError"
    THEN Resp(code, "store error text")
    ELSE Unhandled

\* try/except around the store call of update_status
update_except(exc, code) ==
    IF exc \in {"ReadTimeout", "ConnectTimeout"}
    THEN Resp(504, "Timed out contacting database.")
    ELSE IF exc = "HTTPStatusError"
    THEN Resp(code, "store error text")
    ELSE Unhandled

\* add_subscriber without the branch for the conflict status
subscribe_except_no_conflict(exc, code) ==
    IF exc = "HTTPStatusError"
    THEN Resp(code, "store error text")
    ELSE Unhandled

\* try/except around the store call of add_subscriber
subscribe_except(exc, code) ==
    IF exc = "HTTPStatusError"
    THEN IF code = 409
         THEN Resp(409, "Already subscribed")
         ELSE Resp(code, "store error text")
    ELSE Unhandled

\* update_status without the id filter on its PATCH
update_params_unfiltered(res_id) == [field |-> "", value |-> res_id]
\* update_status: the filter of its PATCH, params={"id": "eq.<res_id>"}
update_params(res_id) == [field |-> "id", value |-> res_id]

\* update_status notifying of a confirmation only
Notifiable_confirmed_only(status) == status = "confirmed"
\* update_status: the statuses that queue a notification
Notifiable(status) == status \in {"confirmed", "cancelled"}

\* add_task outside any try: a failure to queue fails the request
AfterQueue_propagates(resp, queued) == IF queued THEN resp ELSE Unhandled

\* try/except around background_tasks.add_task: a failure to queue is
\* printed and the handler goes on to return the record
AfterQueue(resp, queued) == resp

\* ------------------------------------------------------------------- state
VARIABLES
    reservations,      \* store: rows of the reservations collection
    subscribers,       \* store: rows of the subscribers collection
    ADMIN_RECIPIENTS,  \* configuration read at start-up
    reqs               \* requests being served, and served ones not yet forgotten

vars == <<reservations, subscribers, ADMIN_RECIPIENTS, reqs>>

\* a request whose handler has answered without calling the store
Answered(op, inp, resp) ==
    [op |-> op, inp |-> inp, pc |-> "done", status |-> resp.status,
     detail |-> resp.detail, body |-> <<>>, payload |-> <<>>,
     storeCalls |-> 0, exc |-> "", task |-> "none", custSends |-> 0,
     adminSends |-> 0, fresh |-> FALSE, auth |-> <<>>, prior |-> ""]

\* an admin request that require_auth has rejected; auth is what the token
\* check saw
Rejected(op, auth, inp, resp) ==
    [Answered(op, inp, resp) EXCEPT !.auth = <<auth>>]

\* an admin request that require_auth has let through: its handler runs next
Authed(op, auth, inp) ==
    [Answered(op, inp, Pass) EXCEPT !.pc = "authed", !.auth = <<auth>>]

\* a request whose handler awaits its store call
Awaiting(op, inp, payload, fresh) ==
    [op |-> op, inp |-> inp, pc |-> "await_store", status |-> 0,
     detail |-> "", body |-> <<>>, payload |-> payload,
     storeCalls |-> 1, exc |-> "", task |-> "none", custSends |-> 0,
     adminSends |-> 0, fresh |-> fresh, auth |-> <<>>, prior |-> ""]

\* an answered status-update with the status its row had when the store
\* took the patch
Patched(r, prior) == [r EXCEPT !.prior = prior]

\* the handler's answer after its store call; exc is what the call raised
\* ("none" when the store answered with a success status)
Finish(r, resp, body, task, exc) ==
    [r EXCEPT !.pc = "done", !.status = resp.status, !.detail = resp.detail,
              !.body = body, !.task = task, !.exc = exc]

InFlight(op) ==
    Cardinality({i \in DOMAIN reqs :
                    reqs[i].op = op /\ reqs[i].pc = "await_store"})

\* a served request stays in reqs while its notification runs, and a served
\* subscribe call while another call for the same email is waiting
Settled(i) ==
    /\ reqs[i].pc = "done"
    /\ reqs[i].task \notin {"queued", "customer_sent"}
    /\ \A j \in DOMAIN reqs :
          reqs[j].op = "add_subscriber" /\ reqs[i].op = "add_subscriber"
              /\ reqs[j].inp.email = reqs[i].inp.email
          => reqs[j].pc = "done"

\* a settled request is forgotten before anything else happens, and the
\* handler of a request let through runs at once (there is no await between
\* the token check and the handler's store call)
Quiet == \A i \in DOMAIN reqs : ~Settled(i) /\ reqs[i].pc # "authed"

CanAccept == Quiet /\ Len(reqs) < MaxInFlight

Init ==
    /\ reservations = <<>>
    /\ subscribers = <<>>
    /\ ADMIN_RECIPIENTS \in {<<>>, <<"admin@x">>}
    /\ reqs = <<>>

\* ------------------------------------------------------------------- store
\* what the store does is outside the program: it gives a new row an id, it
\* patches the rows a filter selects, it refuses a second subscriber row with
\* the same email, and a call can fail or time out
StoreInsert(rows, payload) ==
    Append(rows, [id |-> Len(rows) + 1] @@ payload)

StorePatch(rows, params, payload) ==
    [k \in DOMAIN rows |->
        IF params.field = "" \/ rows[k][params.field] = params.value
        THEN [f \in DOMAIN rows[k] |->
                IF f \in DOMAIN payload THEN payload[f] ELSE rows[k][f]]
        ELSE rows[k]]

RECURSIVE StoreSelect(_, _, _)
StoreSelect(rows, field, value) ==
    IF rows = <<>> THEN <<>>
    ELSE IF field = "" \/ Head(rows)[field] = value
         THEN <<Head(rows)>> \o StoreSelect(Tail(rows), field, value)
         ELSE StoreSelect(Tail(rows), field, value)

Subscribed(email) == \E k \in DOMAIN subscribers : subscribers[k].email = email

\* a timed-out write may or may not have reached the store
WriteFaults ==
    {[exc |-> e, applied |-> a] : e \in Timeouts, a \in BOOLEAN} \
        {[exc |-> e, applied |-> TRUE] : e \in {"ConnectTimeout", "WriteTimeout"}}

ValidUuid(res_id) == res_id > 0

\* ---------------------------------------------------------------- handlers
\* create_reservation up to its store call
create_reservation ==
    /\ CanAccept
    /\ \E raw \in RawReservations :
         LET v == Validate(ReservationIn(raw)) IN
         IF v.status # 0
         THEN reqs' = Append(reqs, Answered("create_reservation", raw, v))
         ELSE /\ Len(reservations) + InFlight("create_reservation")
                    < MaxReservations
              /\ reqs' = Append(reqs, Awaiting("create_reservation", raw,
                                               <<CreatePayload(raw)>>, FALSE))
    /\ UNCHANGED <<reservations, subscribers, ADMIN_RECIPIENTS>>

\* create_reservation from the store's answer to the response
create_reservation_store ==
    \E i \in DOMAIN reqs :
      /\ Quiet
      /\ reqs[i].op = "create_reservation"
      /\ reqs[i].pc = "await_store"
      /\ \/ \E queued \in BOOLEAN :
              LET rows == StoreInsert(reservations, reqs[i].payload[1])
                  created == rows[Len(rows)]
              IN /\ reservations' = rows
                 /\ reqs' = [reqs EXCEPT ![i] =
                        Finish(@, AfterQueue(Resp(201, ""), queued),
                               <<created>>,
                               IF queued THEN "queued" ELSE "dropped", "none")]
         \/ /\ reservations' = reservations
            /\ reqs' = [reqs EXCEPT ![i] =
                   Finish(@, Resp(500, "Empty response from Supabase"),
                          <<>>, "none", "none")]
         \/ \E f \in WriteFaults :
              /\ reservations' =
                    IF f.applied
                    THEN StoreInsert(reservations, reqs[i].payload[1])
                    ELSE reservations
              /\ reqs' = [reqs EXCEPT ![i] =
                     Finish(@, create_except(f.exc, 0), <<>>, "none", f.exc)]
         \/ \E code \in StoreErrorStatuses :
              /\ reservations' = reservations
              /\ reqs' = [reqs EXCEPT ![i] =
                     Finish(@, create_except("HTTPStatusError", code),
                            <<>>, "none", "HTTPStatusError")]
      /\ UNCHANGED <<subscribers, ADMIN_RECIPIENTS>>

\* update_status without the check for an empty result
update_response_always_ok(data) == Resp(200, "")

\* update_status: the answer for the rows the store returned
update_response(data) ==
    IF data = <<>> THEN Resp(404, "Reservation not found") ELSE Resp(200, "")

AdminOps == {"update_status", "get_by_status", "list_all_reservations"}

\* the path and body an admin request can carry; res_id 0 stands for a
\* path segment that is not a UUID, "bogus" for a status outside the enum,
\* "none" for a missing optional status
AdminArgs(op) ==
    IF op = "update_status"
    THEN [res_id : 0..MaxReservations, status : StatusEnum \cup {"bogus"}]
    ELSE IF op = "get_by_status"
    THEN [status : StatusEnum \cup {"bogus"}]
    ELSE [status : StatusEnum \cup {"none", "bogus"}]

\* an admin request arrives: require_auth, the dependency of the three
\* admin routes, runs before the path and body are validated
admin_request ==
    /\ CanAccept
    /\ \E op \in AdminOps, cookie \in Tokens, header \in Tokens :
        \E provider \in ProviderOutcomes(TokenOf(cookie, header)),
           inp \in AdminArgs(op) :
          LET auth == [cookie |-> cookie, header |-> header,
                       provider |-> provider]
              a == require_auth(cookie, header, provider)
          IN reqs' = Append(reqs,
                 IF a.status # 0
                 THEN Rejected(op, auth, inp, a)
                 ELSE Authed(op, auth, inp))
    /\ UNCHANGED <<reservations, subscribers, ADMIN_RECIPIENTS>>

\* the handler of a request let through, up to its store call: the path and
\* body are validated, then the call is issued
Handle(i, valid, payload) ==
    /\ reqs[i].pc = "authed"
    /\ reqs' = [reqs EXCEPT ![i] =
           IF ~valid
           THEN Answered(@.op, @.inp, Resp(422, "validation error"))
           ELSE Awaiting(@.op, @.inp, <<payload>>, FALSE)]
    /\ UNCHANGED <<reservations, subscribers, ADMIN_RECIPIENTS>>

update_status ==
    \E i \in DOMAIN reqs :
      /\ reqs[i].op = "update_status"
      /\ Handle(i,
                ValidUuid(reqs[i].inp.res_id)
                    /\ reqs[i].inp.status \in StatusEnum,
                [status |-> reqs[i].inp.status])

\* update_status from the store's answer to the response
update_status_store ==
    \E i \in DOMAIN reqs :
      /\ Quiet
      /\ reqs[i].op = "update_status"
      /\ reqs[i].pc = "await_store"
      /\ \/ \E queued \in BOOLEAN :
              LET params == update_params(reqs[i].inp.res_id)
                  before == StoreSelect(reservations, params.field,
                                        params.value)
                  rows == StorePatch(reservations, params, reqs[i].payload[1])
                  data == StoreSelect(rows, params.field, params.value)
                  prior == IF before = <<>> THEN "" ELSE before[1].status
              IN /\ reservations' = rows
                 /\ IF data = <<>>
                    THEN /\ queued
                         /\ reqs' = [reqs EXCEPT ![i] =
                                Finish(@, update_response(data), <<>>, "none", "none")]
                    ELSE IF Notifiable(reqs[i].inp.status)
                    THEN reqs' = [reqs EXCEPT ![i] =
                             Patched(Finish(@, AfterQueue(update_response(data), queued),
                                            <<data[1]>>,
                                            IF queued THEN "queued" ELSE "dropped",
                                            "none"),
                                     prior)]
                    ELSE /\ queued
                         /\ reqs' = [reqs EXCEPT ![i] =
                                Patched(Finish(@, update_response(data),
                                               <<data[1]>>, "none", "none"),
                                        prior)]
         \/ \E f \in WriteFaults :
              /\ reservations' =
                    IF f.applied
                    THEN StorePatch(reservations,
                                    update_params(reqs[i].inp.res_id),
                                    reqs[i].payload[1])
                    ELSE reservations
              /\ reqs' = [reqs EXCEPT ![i] =
                     Finish(@, update_except(f.exc, 0), <<>>, "none", f.exc)]
         \/ \E code \in StoreErrorStatuses :
              /\ reservations' = reservations
              /\ reqs' = [reqs EXCEPT ![i] =
                     Finish(@, update_except("HTTPStatusError", code),
                            <<>>, "none", "HTTPStatusError")]
      /\ UNCHANGED <<subscribers, ADMIN_RECIPIENTS>>

\* a list handler from the store's answer to the response
ListStore(op) ==
    \E i \in DOMAIN reqs :
      /\ Quiet
      /\ reqs[i].op = op
      /\ reqs[i].pc = "await_store"
      /\ \/ reqs' = [reqs EXCEPT ![i] =
                Finish(@, Resp(200, ""),
                       StoreSelect(reservations, reqs[i].payload[1].field,
                                   reqs[i].payload[1].value),
                       "none", "none")]
         \/ \E exc \in Timeouts :
              reqs' = [reqs EXCEPT ![i] =
                  Finish(@, list_except(exc, 0), <<>>, "none", exc)]
         \/ \E code \in StoreErrorStatuses :
              reqs' = [reqs EXCEPT ![i] =
                  Finish(@, list_except("HTTPStatusError", code), <<>>, "none", "HTTPStatusError")]
      /\ UNCHANGED <<reservations, subscribers, ADMIN_RECIPIENTS>>

get_reservations ==
    /\ CanAccept
    /\ \E email \in Emails :
         reqs' = Append(reqs,
             Awaiting("get_reservations", [email |-> email],
                      <<[field |-> "email", value |-> email]>>, FALSE))
    /\ UNCHANGED <<reservations, subscribers, ADMIN_RECIPIENTS>>

get_reservations_store == ListStore("get_reservations")

get_by_status ==
    \E i \in DOMAIN reqs :
      /\ reqs[i].op = "get_by_status"
      /\ Handle(i, reqs[i].inp.status \in StatusEnum,
                [field |-> "status", value |-> reqs[i].inp.status])

get_by_status_store == ListStore("get_by_status")

list_all_reservations ==
    \E i \in DOMAIN reqs :
      /\ reqs[i].op = "list_all_reservations"
      /\ Handle(i, reqs[i].inp.status # "bogus",
                [field |-> IF reqs[i].inp.status = "none" THEN "" ELSE "status",
                 value |-> reqs[i].inp.status])

list_all_reservations_store == ListStore("list_all_reservations")

\* add_subscriber up to its store call
add_subscriber ==
    /\ Quiet
    /\ Len(reqs) < MaxSubscribeCalls
    /\ \E email \in SubscriberEmails :
         reqs' = Append(reqs, Awaiting("add_subscriber", [email |-> email],
                                       <<[email |-> email]>>,
                                       ~Subscribed(email)))
    /\ UNCHANGED <<reservations, subscribers, ADMIN_RECIPIENTS>>

\* add_subscriber from the store's answer to the response
add_subscriber_store ==
    \E i \in DOMAIN reqs :
      /\ Quiet
      /\ reqs[i].op = "add_subscriber"
      /\ reqs[i].pc = "await_store"
      /\ \/ /\ Subscribed(reqs[i].inp.email)
            /\ subscribers' = subscribers
            /\ reqs' = [reqs EXCEPT ![i] =
                   Finish(@, subscribe_except("HTTPStatusError", 409),
                          <<>>, "none", "HTTPStatusError")]
         \/ /\ ~Subscribed(reqs[i].inp.email)
            /\ subscribers' = Append(subscribers, reqs[i].payload[1])
            /\ reqs' = [reqs EXCEPT ![i] =
                   Finish(@, Resp(201, "Subscription successful"),
                          <<reqs[i].payload[1]>>, "none", "none")]
         \/ /\ ~Subscribed(reqs[i].inp.email)
            /\ subscribers' = subscribers
            /\ reqs' = [reqs EXCEPT ![i] =
                   Finish(@, Resp(500, "Failed to subscribe"), <<>>, "none", "none")]
         \/ \E f \in WriteFaults :
              /\ f.applied => ~Subscribed(reqs[i].inp.email)
              /\ subscribers' =
                    IF f.applied
                    THEN Append(subscribers, reqs[i].payload[1])
                    ELSE subscribers
              /\ reqs' = [reqs EXCEPT ![i] =
                     Finish(@, subscribe_except(f.exc, 0), <<>>, "none", f.exc)]
         \/ \E code \in StoreErrorStatuses :
              /\ subscribers' = subscribers
              /\ reqs' = [reqs EXCEPT ![i] =
                     Finish(@, subscribe_except("HTTPStatusError", code),
                            <<>>, "none", "HTTPStatusError")]
      /\ UNCHANGED <<reservations, ADMIN_RECIPIENTS>>

\* ----------------------------------------------------------- notifications
\* _send: one call of the mail API, which returns or raises
_send(i, field, next) ==
    \E ok \in BOOLEAN :
      reqs' = [reqs EXCEPT ![i] =
          [@ EXCEPT ![field] = @ + 1,
                    !.task = IF ok THEN next ELSE "raised"]]

\* the body of a queued notification: the customer send, then the admin
\* send when recipients are configured; a raise ends the task
Notify(i) ==
    /\ Quiet
    /\ \/ /\ reqs[i].task = "queued"
          /\ _send(i, "custSends",
                   IF ADMIN_RECIPIENTS # <<>> THEN "customer_sent"
                                              ELSE "finished")
       \/ /\ reqs[i].task = "customer_sent"
          /\ _send(i, "adminSends", "finished")
    /\ UNCHANGED <<reservations, subscribers, ADMIN_RECIPIENTS>>

send_reservation_received ==
    \E i \in DOMAIN reqs : reqs[i].op = "create_reservation" /\ Notify(i)

send_status_change ==
    \E i \in DOMAIN reqs : reqs[i].op = "update_status" /\ Notify(i)

\* seq without the elements at the indices in S
Remove(seq, S) ==
    LET F[k \in 0..Len(seq)] ==
            IF k = 0 THEN <<>>
            ELSE IF k \in S THEN F[k - 1]
            ELSE Append(F[k - 1], seq[k])
    IN F[Len(seq)]

\* a settled request is forgotten; the subscribe calls for one email are
\* forgotten together
Forget ==
    /\ \E i \in DOMAIN reqs :
         /\ Settled(i)
         /\ reqs' = Remove(reqs,
                {j \in DOMAIN reqs :
                    \/ j = i
                    \/ /\ reqs[i].op = "add_subscriber"
                       /\ reqs[j].op = "add_subscriber"
                       /\ reqs[j].inp.email = reqs[i].inp.email})
    /\ UNCHANGED <<reservations, subscribers, ADMIN_RECIPIENTS>>

Next ==
    \/ create_reservation
    \/ create_reservation_store
    \/ get_reservations
    \/ get_reservations_store
    \/ admin_request
    \/ update_status
    \/ update_status_store
    \/ get_by_status
    \/ get_by_status_store
    \/ list_all_reservations
    \/ list_all_reservations_store
    \/ send_reservation_received
    \/ send_status_change
    \/ Forget

\* the reservation lifecycle: the public and the admin operations
Spec == Init /\ [][Next]_vars

NextSubscribers ==
    \/ add_subscriber
    \/ add_subscriber_store
    \/ Forget

\* the subscriber collection, which no reservation operation touches
SpecSubscribers == Init /\ [][NextSubscribers]_vars

TypeOK ==
    /\ Len(reservations) <= MaxReservations
    /\ \A k \in DOMAIN reservations : reservations[k].status \in StatusEnum

\* ------------------------------------------------ email_utils: calendar range
\* an absent value (None) is <<>>, a present string s is <<s>>
_s(v) == IF v = <<>> THEN <<>> ELSE v[1]

\* str.split(sep): the pieces between the separators, one piece when the
\* separator does not occur
RECURSIVE split(_, _)
split(s, sep) ==
    IF \A i \in 1..Len(s) : s[i] # sep
    THEN <<s>>
    ELSE LET k == CHOOSE i \in 1..Len(s) :
                    s[i] = sep /\ \A j \in 1..(i - 1) : s[j] # sep
         IN <<SubSeq(s, 1, k - 1)>> \o split(SubSeq(s, k + 1, Len(s)), sep)

\* the ten ASCII digits the ISO parsers accept, in the order of their values
AsciiDigits == <<"0", "1", "2", "3", "4", "5", "6", "7", "8", "9">>

IsAsciiDigit(c) == \E k \in 1..10 : AsciiDigits[k] = c

AsciiValue(c) == (CHOOSE k \in 1..10 : AsciiDigits[k] = c) - 1

\* the number a run of ASCII digits writes
RECURSIVE Num(_)
Num(s) ==
    IF s = <<>> THEN 0
    ELSE Num(SubSeq(s, 1, Len(s) - 1)) * 10 + AsciiValue(s[Len(s)])

\* a number zero-padded to w digits, as %Y, %m, %d, %H, %M and %S write it
RECURSIVE Pad(_, _)
Pad(n, w) ==
    IF w = 0 THEN <<>>
    ELSE Append(Pad(n \div 10, w - 1), AsciiDigits[(n % 10) + 1])

is_leap(year) == year % 4 = 0 /\ (year % 100 # 0 \/ year % 400 = 0)

days_in_month(year, month) ==
    IF month = 2 THEN (IF is_leap(year) THEN 29 ELSE 28)
    ELSE IF month \in {4, 6, 9, 11} THEN 30 ELSE 31

\* Date.fromisoformat on YYYY-MM-DD: <<>> when it raises, <<date>> otherwise
date_fromisoformat(d) ==
    IF /\ Len(d) = 10
       /\ d[5] = "-" /\ d[8] = "-"
       /\ \A i \in {1, 2, 3, 4, 6, 7, 9, 10} : IsAsciiDigit(d[i])
    THEN LET year  == Num(SubSeq(d, 1, 4))
             month == Num(SubSeq(d, 6, 7))
             day   == Num(SubSeq(d, 9, 10))
         IN IF /\ year >= 1
               /\ month \in 1..12
               /\ day \in 1..days_in_month(year, month)
            THEN <<[year |-> year, month |-> month, day |-> day]>>
            ELSE <<>>
    ELSE <<>>

\* datetime.fromisoformat(f"{d}T{hh}:{mm}:00"): <<>> when it raises
datetime_fromisoformat(d, hh, mm) ==
    LET date == date_fromisoformat(d)
    IN IF /\ date # <<>>
          /\ Len(hh) = 2 /\ Len(mm) = 2
          /\ \A i \in 1..2 : IsAsciiDigit(hh[i]) /\ IsAsciiDigit(mm[i])
          /\ Num(hh) <= 23 /\ Num(mm) <= 59
       THEN <<[hour |-> Num(hh), minute |-> Num(mm), second |-> 0] @@ date[1]>>
       ELSE <<>>

\* the day after a date
next_day(dt) ==
    IF dt.day < days_in_month(dt.year, dt.month)
    THEN [dt EXCEPT !.day = @ + 1]
    ELSE IF dt.month < 12
    THEN [dt EXCEPT !.day = 1, !.month = @ + 1]
    ELSE [dt EXCEPT !.day = 1, !.month = 1, !.year = @ + 1]

RECURSIVE add_days(_, _)
add_days(dt, n) == IF n = 0 THEN dt ELSE add_days(next_day(dt), n - 1)

\* dt + timedelta(minutes=...): <<>> when the sum leaves the calendar
\* (OverflowError past the year 9999)
add_minutes(dt, minutes) ==
    LET total == dt.hour * 60 + dt.minute + minutes
        end   == [add_days(dt, total \div 1440) EXCEPT
                    !.hour = (total % 1440) \div 60,
                    !.minute = total % 60]
    IN IF end.year > 9999 THEN <<>> ELSE <<end>>

\* strftime("%Y%m%d")
strftime_date(dt) == Pad(dt.year, 4) \o Pad(dt.month, 2) \o Pad(dt.day, 2)

\* strftime("%Y%m%dT%H%M%S")
strftime(dt) ==
    strftime_date(dt) \o <<"T">> \o Pad(dt.hour, 2) \o Pad(dt.minute, 2)
      \o Pad(dt.second, 2)

\* the body of _start_end_strings for a duration
StartEnd(r, duration_minutes) ==
    LET d     == _s(r.date)
        t     == _s(r.time)
        parts == split(t, ":")
        dt    == IF Len(parts) < 2 THEN <<>>
                 ELSE datetime_fromisoformat(d, parts[1], parts[2])
        end   == IF dt = <<>> THEN <<>>
                 ELSE add_minutes(dt[1], duration_minutes)
        dd    == date_fromisoformat(d)
    IN IF dt # <<>> /\ end # <<>>
       THEN <<strftime(dt[1]), strftime(end[1])>>
       ELSE IF dd # <<>>
       THEN <<strftime_date(dd[1]), strftime_date(dd[1])>>
       ELSE << <<>>, <<>> >>

_start_end_strings_one_hour(r) == StartEnd(r, 60)
_start_end_strings(r) == StartEnd(r, 120)

\* _gcal_link: the dates parameter of the link, absent for an empty range
_gcal_link(r) ==
    LET range == _start_end_strings(r)
    IN [range |-> range,
        dates |-> IF range[1] # <<>> /\ range[2] # <<>>
                  THEN <<range[1] \o <<"/">> \o range[2]>>
                  ELSE <<>>]

\* a date column as the store returns it: date.isoformat()
isoformat(year, month, day) ==
    Pad(year, 4) \o <<"-">> \o Pad(month, 2) \o <<"-">> \o Pad(day, 2)

\* the date of a record handed to the mailer: absent, empty, ISO dates (month
\* ends, leap and common February, year end, the calendar's last day) and
\* text that is no calendar date
CalendarDates ==
    {<<>>, << <<>> >>,
     <<isoformat(2024, 6, 1)>>, <<isoformat(2024, 6, 30)>>,
     <<isoformat(2024, 2, 28)>>, <<isoformat(2023, 2, 28)>>,
     <<isoformat(2024, 12, 31)>>, <<isoformat(9999, 12, 31)>>,
     <<isoformat(2024, 2, 30)>>,
     << <<"2", "0", "2", "4", "-", "6", "-", "1">> >>}

\* the time of a record: free text
CalendarTimes ==
    {<<>>, << <<>> >>,
     << <<"1", "9", ":", "3", "0">> >>,
     << <<"0", "0", ":", "0", "0">> >>,
     << <<"2", "1", ":", "5", "9">> >>,
     << <<"2", "2", ":", "0", "0">> >>,
     << <<"2", "3", ":", "3", "0">> >>,
     << <<"1", "9", ":", "3", "0", ":", "0", "0">> >>,
     << <<"1", "9", ":", "3", "0", ":", "4", "5">> >>,
     << <<"2", "3", ":", "3", "0", ":", "x", "x">> >>,
     << <<"9", ":", "3", "0">> >>,
     << <<"2", "4", ":", "0", "0">> >>,
     << <<"1", "9", ":", "6", "0">> >>,
     << <<"1", "9", ":", "3", "0", "x">> >>,
     << <<"7", "p", "m">> >>,
     << <<"1", "9">> >>}

\* a message is rendered for a record: its calendar link is computed
gcal_link ==
    \E d \in CalendarDates, t \in CalendarTimes :
      /\ reqs' = <<[op |-> "_gcal_link",
                    inp |-> [date |-> d, time |-> t],
                    link |-> _gcal_link([date |-> d, time |-> t])]>>
      /\ UNCHANGED <<reservations, subscribers, ADMIN_RECIPIENTS>>

NextCalendar ==
    \/ gcal_link

\* the calendar link of every record the mailer can be handed
SpecCalendar == Init /\ [][NextCalendar]_vars

\* ------------------------------------------------ email_utils: reference code
\* the longest identifier handed to _ref
MaxIdLen == 8

\* the characters of an identifier: a lowercase and an uppercase hex letter,
\* a digit and the hyphen
IdChars == {"a", "F", "7", "-"}

hex_lowercase == <<"a", "b", "c", "d", "e", "f">>
hex_uppercase == <<"A", "B", "C", "D", "E", "F">>

\* str.replace(old, ""): every occurrence of the character removed
replace(s, old) == SelectSeq(s, LAMBDA c : c # old)

\* s[-6:]: the last six characters, all of them when there are fewer
last6(s) == SubSeq(s, IF Len(s) > 6 THEN Len(s) - 5 ELSE 1, Len(s))

\* str.upper() on hex letters, digits and hyphens
upper(s) ==
    [i \in 1..Len(s) |->
       IF \E j \in 1..6 : hex_lowercase[j] = s[i]
       THEN hex_uppercase[CHOOSE j \in 1..6 : hex_lowercase[j] = s[i]]
       ELSE s[i]]

\* the placeholder returned for an absent or empty identifier
NoRef == <<"(dash)">>

_ref_slice_first(res_id) ==
    IF res_id = <<>> \/ res_id[1] = <<>>
    THEN NoRef
    ELSE upper(replace(last6(res_id[1]), "-"))
_ref(res_id) ==
    IF res_id = <<>> \/ res_id[1] = <<>>
    THEN NoRef
    ELSE upper(last6(replace(res_id[1], "-")))

RefOf(res_id) == [op |-> "_ref", inp |-> res_id, ref |-> _ref(res_id)]

\* a message is rendered for a record without an identifier, or with an
\* empty one
ref ==
    /\ reqs = <<>>
    /\ \E res_id \in {<<>>, << <<>> >>} : reqs' = <<RefOf(res_id)>>
    /\ UNCHANGED <<reservations, subscribers, ADMIN_RECIPIENTS>>

\* a message is rendered for a record whose identifier is one character
\* longer
ref_longer ==
    /\ reqs # <<>>
    /\ reqs[1].op = "_ref"
    /\ Len(_s(reqs[1].inp)) < MaxIdLen
    /\ \E c \in IdChars : reqs' = <<RefOf(<<Append(_s(reqs[1].inp), c)>>)>>
    /\ UNCHANGED <<reservations, subscribers, ADMIN_RECIPIENTS>>

NextRef ==
    \/ ref
    \/ ref_longer

\* the reference code of every identifier up to MaxIdLen characters
SpecRef == Init /\ [][NextRef]_vars

\* ================================================================== claims
\* the token check saw a token that the provider accepts
Accepted(auth) ==
    TokenOf(auth.cookie, auth.header) # "" /\ auth.provider = "user"

NotifyEnded(r) == r.task \in {"finished", "raised"}

\* C1: a successful status-update to confirmed or cancelled whose
\* notification has run made exactly one customer dispatch and, with admin
\* recipients configured, exactly one admin dispatch (none without them),
\* also when the customer send failed; an update to pending makes none.
C1_ExactlyOneDispatchEach ==
    \A i \in DOMAIN reqs :
      reqs[i].op = "update_status" /\ reqs[i].status = 200 =>
        /\ Notifiable(reqs[i].inp.status) /\ NotifyEnded(reqs[i]) =>
             /\ reqs[i].custSends = 1
             /\ reqs[i].adminSends = IF ADMIN_RECIPIENTS # <<>> THEN 1 ELSE 0
        /\ ~Notifiable(reqs[i].inp.status) =>
             /\ reqs[i].task = "none"
             /\ reqs[i].custSends = 0
             /\ reqs[i].adminSends = 0

C3_CreatedPending ==
    /\ [](\A i \in DOMAIN reqs :
            reqs[i].op = "create_reservation" =>
              /\ reqs[i].payload # <<>> => reqs[i].payload[1].status = "pending"
              /\ reqs[i].status = 201 => reqs[i].body[1].status = "pending")
    /\ [][\A k \in DOMAIN reservations' :
            k \notin DOMAIN reservations =>
              reservations'[k].status = "pending"]_vars

C3_Witness ==
    \E i \in DOMAIN reqs :
      /\ reqs[i].op = "create_reservation"
      /\ reqs[i].inp.status = "confirmed"
      /\ reqs[i].status = 201
      /\ reqs[i].body[1].status = "pending"
      /\ reservations[reqs[i].body[1].id].status = "pending"

\* the guests values C4 and C10 speak of: empty, not made of decimal
\* digits only, or a number outside 1..20
GuestsBad(g) ==
    \/ g = <<>>
    \/ \E k \in 1..Len(g) : g[k] \notin DecimalChars
    \/ int(g) < 1
    \/ int(g) > 20

\* C4: a create whose guests value is empty, non-numeric or outside 1..20
\* is rejected with status 400, without store call and without
\* notification.
C4_BadGuestsRejected ==
    \A i \in DOMAIN reqs :
      reqs[i].op = "create_reservation" /\ GuestsBad(reqs[i].inp.guests) =>
        /\ reqs[i].pc = "done"
        /\ reqs[i].status = 400
        /\ reqs[i].storeCalls = 0
        /\ reqs[i].task = "none"

\* C5: a status-update that the store answers with an empty result gets
\* 404 and no notification, and the step leaves the reservations as they
\* were.
C5_NotFound ==
    /\ [](\A i \in DOMAIN reqs :
            /\ reqs[i].op = "update_status"
            /\ reqs[i].pc = "done"
            /\ reqs[i].exc = "none"
            /\ reqs[i].inp.res_id \notin DOMAIN reservations
            => /\ reqs[i].status = 404
               /\ reqs[i].task = "none"
               /\ reqs[i].custSends = 0
               /\ reqs[i].adminSends = 0)
    /\ [][\A i \in DOMAIN reqs :
            /\ reqs[i].op = "update_status"
            /\ reqs[i].pc = "await_store"
            /\ i \in DOMAIN reqs'
            /\ reqs'[i].pc = "done"
            /\ reqs'[i].exc = "none"
            /\ reqs[i].inp.res_id \notin DOMAIN reservations
            => reservations' = reservations]_vars

C5_Witness ==
    \E i \in DOMAIN reqs :
      /\ reqs[i].op = "update_status"
      /\ reqs[i].exc = "none"
      /\ reqs[i].inp.res_id \notin DOMAIN reservations
      /\ reqs[i].status = 404
      /\ Len(reservations) > 0

CallsFor(email) ==
    {i \in DOMAIN reqs :
        reqs[i].op = "add_subscriber" /\ reqs[i].inp.email = email}

RowsFor(email) ==
    Cardinality({k \in DOMAIN subscribers : subscribers[k].email = email})

C8_TimeoutIs504 ==
    \A i \in DOMAIN reqs :
      reqs[i].pc = "done" /\ reqs[i].exc \in Timeouts => reqs[i].status = 504

\* C9: an admin operation whose token the provider does not accept is
\* answered 401, also when its path or body is invalid, and it makes no
\* store call and no notification.
C9_RejectedFirst ==
    \A i \in DOMAIN reqs :
      reqs[i].auth # <<>> /\ ~Accepted(reqs[i].auth[1]) =>
        /\ reqs[i].pc = "done"
        /\ reqs[i].status = 401
        /\ reqs[i].storeCalls = 0
        /\ reqs[i].exc = ""
        /\ reqs[i].task = "none"
        /\ reqs[i].custSends = 0
        /\ reqs[i].adminSends = 0

C9_Witness ==
    \E i \in DOMAIN reqs :
      /\ reqs[i].op = "update_status"
      /\ reqs[i].auth # <<>>
      /\ reqs[i].auth[1].provider = "nouser"
      /\ reqs[i].inp.res_id \in DOMAIN reservations
      /\ reqs[i].inp.status = "bogus"
      /\ reqs[i].status = 401
      /\ reqs[i].storeCalls = 0

\* the reason of the first rule, in the order name, phone, guests, that an
\* input violates ("" when it violates none)
FirstViolated(raw) ==
    IF Len(strip(raw.name)) < 2
    THEN "Name must be at least 2 characters"
    ELSE IF Len(strip(raw.phone)) < 8
    THEN "Phone number must be at least 8 digits"
    ELSE IF GuestsBad(raw.guests)
    THEN "Guests must be between 1 and 20"
    ELSE ""

\* C10: a create that violates a rule is rejected with status 400 and the
\* reason of the first rule it violates in the order name, phone, guests;
\* a create that violates none is not rejected by validation.
C10_FirstReason ==
    \A i \in DOMAIN reqs :
      reqs[i].op = "create_reservation" =>
        IF FirstViolated(reqs[i].inp) # ""
        THEN /\ reqs[i].status = 400
             /\ reqs[i].detail = FirstViolated(reqs[i].inp)
        ELSE reqs[i].storeCalls = 1

\* a date without its hyphens
Compact(d) == SelectSeq(d, LAMBDA c : c # "-")

\* a clock text whose first two fields are a two-digit hour and minute
ClockHM(t) ==
    /\ Len(t) >= 5
    /\ t[3] = ":"
    /\ \A i \in {1, 2, 4, 5} : IsAsciiDigit(t[i])
    /\ Num(<<t[1], t[2]>>) <= 23
    /\ Num(<<t[4], t[5]>>) <= 59
    /\ (Len(t) = 5 \/ t[6] = ":")

\* a clock text HH:MM or HH:MM:SS
ClockHMS(t) ==
    /\ ClockHM(t)
    /\ \/ Len(t) = 5
       \/ /\ Len(t) = 8
          /\ IsAsciiDigit(t[7]) /\ IsAsciiDigit(t[8])
          /\ Num(<<t[7], t[8]>>) <= 59

\* days of the year before each month of a common year
DaysBeforeMonth == <<0, 31, 59, 90, 120, 151, 181, 212, 243, 273, 304, 334>>

LeapDay(y, m) ==
    IF m > 2 /\ y % 4 = 0 /\ (y % 100 # 0 \/ y % 400 = 0) THEN 1 ELSE 0

\* the number of the day a YYYYMMDD text names, counted from 0001-01-01
DayNumber(c) ==
    LET y == Num(SubSeq(c, 1, 4))
        m == Num(SubSeq(c, 5, 6))
        d == Num(SubSeq(c, 7, 8))
    IN (y - 1) * 365 + (y - 1) \div 4 - (y - 1) \div 100 + (y - 1) \div 400
         + DaysBeforeMonth[m] + LeapDay(y, m) + d

\* a YYYYMMDD text that names a day of the calendar
CalendarDay(c) ==
    /\ Len(c) = 8
    /\ \A i \in 1..8 : IsAsciiDigit(c[i])
    /\ LET y == Num(SubSeq(c, 1, 4))
           m == Num(SubSeq(c, 5, 6))
           d == Num(SubSeq(c, 7, 8))
       IN /\ m \in 1..12
          /\ d >= 1
          /\ d <= IF m = 12 THEN 31
                  ELSE DaysBeforeMonth[m + 1] + LeapDay(y, m + 1)
                         - DaysBeforeMonth[m] - LeapDay(y, m)

\* end is start + 120 minutes, both YYYYMMDDTHHMMSS
Plus120(start, end) ==
    /\ Len(end) = 15
    /\ end[9] = "T"
    /\ SubSeq(end, 12, 15) = SubSeq(start, 12, 15)
    /\ Num(SubSeq(end, 10, 11)) = (Num(SubSeq(start, 10, 11)) + 2) % 24
    /\ IF Num(SubSeq(start, 10, 11)) < 22
       THEN SubSeq(end, 1, 8) = SubSeq(start, 1, 8)
       ELSE /\ CalendarDay(SubSeq(end, 1, 8))
            /\ DayNumber(SubSeq(end, 1, 8)) = DayNumber(SubSeq(start, 1, 8)) + 1

\* C11 as stated: for a parsable date and a time HH:MM or HH:MM:SS the range
\* is start = date+time and end = start + 120 minutes, both YYYYMMDDTHHMMSS;
\* for any other time and a parsable date it is the all-day pair; for an
\* unparsable date it is the empty pair.
C11_RangeOfDateAndTime ==
    \A i \in DOMAIN reqs :
      reqs[i].op = "_gcal_link" =>
        LET d     == _s(reqs[i].inp.date)
            t     == _s(reqs[i].inp.time)
            range == reqs[i].link.range
        IN IF date_fromisoformat(d) = <<>>
           THEN range = << <<>>, <<>> >>
           ELSE IF ~ClockHMS(t)
           THEN range = <<Compact(d), Compact(d)>>
           ELSE /\ range[1] = Compact(d) \o <<"T", t[1], t[2], t[4], t[5]>>
                                \o (IF Len(t) = 8 THEN <<t[7], t[8]>>
                                    ELSE <<"0", "0">>)
                /\ Plus120(range[1], range[2])

\* the last two hours of the calendar: no instant 120 minutes later exists
LastHours(d, t) ==
    Compact(d) = Pad(9999, 4) \o Pad(12, 2) \o Pad(31, 2)
      /\ Num(<<t[1], t[2]>>) >= 22

\* C11: for a parsable date and a time whose first two colon-separated
\* fields are a two-digit hour and minute, the range is start = date at that
\* hour and minute with seconds 00 (whatever follows the second colon is
\* ignored) and end = start + 120 minutes, both YYYYMMDDTHHMMSS, rolling over
\* to the next day past midnight; when no such end exists in the calendar,
\* or the time has no such fields, it is the all-day pair of the date; for
\* an unparsable date it is the empty pair. The link carries start/end
\* exactly when the pair is not empty.
C11_RangeOfDateHourMinute ==
    \A i \in DOMAIN reqs :
      reqs[i].op = "_gcal_link" =>
        LET d     == _s(reqs[i].inp.date)
            t     == _s(reqs[i].inp.time)
            range == reqs[i].link.range
        IN /\ IF date_fromisoformat(d) = <<>>
              THEN range = << <<>>, <<>> >>
              ELSE IF ~ClockHM(t) \/ LastHours(d, t)
              THEN range = <<Compact(d), Compact(d)>>
              ELSE /\ range[1] = Compact(d)
                                   \o <<"T", t[1], t[2], t[4], t[5], "0", "0">>
                   /\ Plus120(range[1], range[2])
           /\ reqs[i].link.dates =
                IF range = << <<>>, <<>> >> THEN <<>>
                ELSE <<range[1] \o <<"/">> \o range[2]>>

\* a range that ends on the day after it starts
C11_Witness ==
    \E i \in DOMAIN reqs :
      /\ reqs[i].op = "_gcal_link"
      /\ date_fromisoformat(_s(reqs[i].inp.date)) # <<>>
      /\ ClockHM(_s(reqs[i].inp.time))
      /\ Len(reqs[i].link.range[2]) = 15
      /\ SubSeq(reqs[i].link.range[2], 1, 8)
           # SubSeq(reqs[i].link.range[1], 1, 8)
      /\ reqs[i].link.dates # <<>>

\* the position of the n-th character from the end of s that is no hyphen
NthKeptFromEnd(s, n) ==
    CHOOSE p \in 1..Len(s) :
      /\ s[p] # "-"
      /\ Cardinality({q \in p..Len(s) : s[q] # "-"}) = n

\* C12: for every non-empty identifier the reference code is the last 6 of
\* its characters that are no hyphens (all of them when there are fewer), in
\* their order and uppercased: it contains no hyphen and no lowercase
\* letter, and has length 6 when the identifier has at least 6 such
\* characters.
C12_RefIsLastSix ==
    \A i \in DOMAIN reqs :
      (reqs[i].op = "_ref" /\ _s(reqs[i].inp) # <<>>) =>
        LET s    == _s(reqs[i].inp)
            code == reqs[i].ref
            kept == Cardinality({q \in 1..Len(s) : s[q] # "-"})
        IN /\ Len(code) = IF kept >= 6 THEN 6 ELSE kept
           /\ \A k \in 1..Len(code) :
                /\ code[k] # "-"
                /\ \A j \in 1..6 : code[k] # hex_lowercase[j]
                /\ LET c == s[NthKeptFromEnd(s, Len(code) - k + 1)]
                   IN \/ code[k] = c
                      \/ \E j \in 1..6 :
                           c = hex_lowercase[j] /\ code[k] = hex_uppercase[j]

\* an identifier with a hyphen among its last six characters and a
\* lowercase letter before it, with a code of six characters
C12_Witness ==
    \E i \in DOMAIN reqs :
      /\ reqs[i].op = "_ref"
      /\ Len(_s(reqs[i].inp)) = MaxIdLen
      /\ _s(reqs[i].inp)[MaxIdLen - 1] = "-"
      /\ _s(reqs[i].inp)[MaxIdLen - 6] = "a"
      /\ Len(reqs[i].ref) = 6
      /\ reqs[i].ref[1] = "A"

\* C13: the outcome of the token check is that of the cookie token whenever
\* a non-empty cookie token is present, also when the header carries a
\* different token: a request is let through only on a cookie token the
\* provider accepts, and a cookie token the provider rejects ends in 401
\* even with a valid header token; the header token decides only when there
\* is no non-empty cookie token.
C13_CookieFirst ==
    \A i \in DOMAIN reqs :
      reqs[i].auth # <<>> =>
        LET a    == reqs[i].auth[1]
            used == IF a.cookie # "" THEN "cookie" ELSE "header"
            let  == reqs[i].pc = "authed"
            rejected == /\ reqs[i].pc = "done"
                        /\ reqs[i].status = 401
                        /\ reqs[i].storeCalls = 0
        IN /\ let \/ rejected
           /\ used = "cookie" =>
                /\ let <=> (a.cookie = "good" /\ a.provider = "user")
                /\ a.cookie = "bad" =>
                     rejected /\ reqs[i].detail = "Invalid or expired token"
           /\ used = "header" =>
                /\ let <=> (a.header = "good" /\ a.provider = "user")
                /\ a.header = "" =>
                     rejected /\ reqs[i].detail = "Missing authentication"

\* a request with a rejected cookie token and a valid header token, answered
\* 401
C13_Witness ==
    \E i \in DOMAIN reqs :
      /\ reqs[i].auth # <<>>
      /\ reqs[i].auth[1].cookie = "bad"
      /\ reqs[i].auth[1].header = "good"
      /\ reqs[i].pc = "done"
      /\ reqs[i].status = 401
      /\ reqs[i].detail = "Invalid or expired token"

\* C14: a status-update that the store applied to an existing reservation is
\* answered 200 with the row in the requested status whatever status the row
\* had before (another status or the same one), and each such update to
\* confirmed or cancelled hands a notification to the queue, whose run makes
\* one customer dispatch; an update to pending queues none.
C14_AnyTransitionAccepted ==
    \A i \in DOMAIN reqs :
      (/\ reqs[i].op = "update_status"
       /\ reqs[i].pc = "done"
       /\ reqs[i].prior \in {"pending", "confirmed", "cancelled"}) =>
        /\ reqs[i].status = 200
        /\ Len(reqs[i].body) = 1
        /\ reqs[i].body[1].id = reqs[i].inp.res_id
        /\ reqs[i].body[1].status = reqs[i].inp.status
        /\ IF reqs[i].inp.status \in {"confirmed", "cancelled"}
           THEN /\ reqs[i].task # "none"
                /\ reqs[i].task \in {"customer_sent", "finished", "raised"}
                     => reqs[i].custSends = 1
           ELSE reqs[i].task = "none"

\* an update to confirmed of a reservation that was already confirmed,
\* accepted, with its notification dispatched to the customer again
C14_Witness ==
    \E i \in DOMAIN reqs :
      /\ reqs[i].op = "update_status"
      /\ reqs[i].prior = "confirmed"
      /\ reqs[i].inp.status = "confirmed"
      /\ reqs[i].status = 200
      /\ reqs[i].custSends = 1

\* C15: the step in which a status-update gets its answer from the store
\* (also one that times out after the store applied it) leaves the number of
\* reservations, every reservation with another id, every field but status
\* of the reservation with the requested id, and the subscribers unchanged;
\* the status of that reservation stays or becomes the requested one.
C15_OnlyStatusOfOneRow ==
    [][\A i \in DOMAIN reqs :
         (/\ reqs[i].op = "update_status"
          /\ reqs[i].pc = "await_store"
          /\ i \in DOMAIN reqs'
          /\ reqs'[i].pc = "done") =>
           /\ subscribers' = subscribers
           /\ DOMAIN reservations' = DOMAIN reservations
           /\ \A k \in DOMAIN reservations :
                /\ DOMAIN reservations'[k] = DOMAIN reservations[k]
                /\ \A f \in DOMAIN reservations[k] \ {"status"} :
                     reservations'[k][f] = reservations[k][f]
                /\ reservations'[k].status
                     \in {reservations[k].status, reqs[i].inp.status}
                /\ reservations[k].id # reqs[i].inp.res_id
                     => reservations'[k] = reservations[k]]_vars

\* an accepted update of one of two reservations to a new status, with the
\* other reservation still in the status it was created with
C15_Witness ==
    \E i \in DOMAIN reqs :
      /\ reqs[i].op = "update_status"
      /\ reqs[i].status = 200
      /\ reqs[i].prior = "pending"
      /\ reqs[i].inp.status = "cancelled"
      /\ Len(reservations) = 2
      /\ \A k \in DOMAIN reservations :
           reservations[k].status =
             IF reservations[k].id = reqs[i].inp.res_id
             THEN "cancelled" ELSE "pending"

====
